---- MODULE Spec2Model ----
(***************************************************************************)
(* A model of the unconfusables package of bysages/typography, and of the  *)
(* tesseract and AI drivers of its unocr package.                          *)
(*                                                                         *)
(* A JavaScript string is a sequence of UTF-16 code units (integers).  A   *)
(* code point outside the Basic Multilingual Plane is two code units, a    *)
(* high surrogate followed by a low surrogate, as String.fromCodePoint     *)
(* builds it.  The dataset is what scripts/update.ts parseConfusablesFile  *)
(* builds from the lines of a confusables.txt file; the operations of      *)
(* src/utils.ts read it.                                                   *)
(***************************************************************************)
EXTENDS Integers, Sequences, FiniteSets, TLC

VARIABLES version, date, confusables, reverseLookup, pc, nread, call

\* the state of the unocr drivers (src/drivers): the tesseract driver's worker,
\* the workers Tesseract.createWorker has made, the asynchronous calls in
\* flight, and the batch of a recognizes call
VARIABLES worker, created, tasks, batch

dataVars == <<version, date, confusables, reverseLookup, pc, nread, call>>

ocrVars == <<worker, created, tasks, batch>>

vars == <<dataVars, ocrVars>>

(***************************************************************************)
(* Bounds of the model.                                                    *)
(***************************************************************************)
\* longest text, in UTF-16 code units, handed to an operation
MaxLen == 2
\* most mapping lines in the parsed file
MaxLines == 2
\* most recognize() calls made on one tesseract driver
MaxCalls == 2
\* most inputs handed to one recognizes() call
MaxInputs == 2

(***************************************************************************)
(* Types (types.ts).                                                       *)
(***************************************************************************)
ConfusableType == {"MA", "MI", "X"}

\* an omitted optional argument
Undefined == "undefined"

\* the result of an absent property read: confusables.confusables[char]
NoRecord == [source |-> <<>>, target |-> <<>>, type |-> Undefined, description |-> Undefined]

(***************************************************************************)
(* JavaScript string primitives.                                           *)
(***************************************************************************)
\* parseInt(hex, 16) of a string of hexadecimal digits, given as digit values
RECURSIVE parseInt16(_)
parseInt16(hex) ==
  IF hex = <<>> THEN 0
  ELSE 16 * parseInt16(SubSeq(hex, 1, Len(hex) - 1)) + hex[Len(hex)]

\* String.fromCodePoint(cp): one code unit in the BMP, a surrogate pair above it
fromCodePoint(cp) ==
  IF cp < 65536 THEN <<cp>>
  ELSE <<55296 + ((cp - 65536) \div 1024), 56320 + ((cp - 65536) % 1024)>>

\* text.split(""): one one-unit string per UTF-16 code unit
split(text) == [i \in 1..Len(text) |-> <<text[i]>>]

\* parts.join("")
RECURSIVE join(_)
join(parts) ==
  IF parts = <<>> THEN <<>> ELSE Head(parts) \o join(Tail(parts))

(***************************************************************************)
(* The input file: lines of confusables.txt.  A mapping line is            *)
(*   SOURCE_HEX ; TARGET_HEX ... ; TYPE # description                      *)
(* with the hexadecimal fields given as sequences of digit values.  The    *)
(* fields of confusables.txt are Unicode scalar values: no line names a    *)
(* surrogate code point.                                                   *)
(***************************************************************************)
MappingLines ==
  { \* 0030 ; 004F ; MA    DIGIT ZERO -> LATIN CAPITAL LETTER O
    [sourceHex |-> <<0, 0, 3, 0>>, targetHexStr |-> << <<0, 0, 4, 15>> >>,
     type |-> "MA", description |-> "DIGIT ZERO"],
    \* 004F ; 1D40E ; MA   a BMP source with a target outside the BMP
    [sourceHex |-> <<0, 0, 4, 15>>, targetHexStr |-> << <<1, 13, 4, 0, 14>> >>,
     type |-> "MA", description |-> Undefined],
    \* 1D40E ; 004F ; MA   MATHEMATICAL BOLD CAPITAL O -> LATIN CAPITAL LETTER O
    [sourceHex |-> <<1, 13, 4, 0, 14>>, targetHexStr |-> << <<0, 0, 4, 15>> >>,
     type |-> "MA", description |-> "MATHEMATICAL BOLD CAPITAL O"],
    \* 0030 ; 004F 1D40E ; MI   the first source again: another classification,
    \* a target of two code points
    [sourceHex |-> <<0, 0, 3, 0>>,
     targetHexStr |-> << <<0, 0, 4, 15>>, <<1, 13, 4, 0, 14>> >>,
     type |-> "MI", description |-> Undefined] }

\* the UTF-16 code units the texts are made of: '0', 'O' and the two
\* surrogates of U+1D40E
Units == {48, 79, 55349, 56334}

\* a whole file's lines: the mapping lines above, a line whose source is among
\* its own targets, a line that repeats a target, and two lines whose fields
\* String.fromCodePoint rejects
FileLines ==
  MappingLines \cup
  { \* 004F ; 004F 0030 ; MA
    [sourceHex |-> <<0, 0, 4, 15>>,
     targetHexStr |-> << <<0, 0, 4, 15>>, <<0, 0, 3, 0>> >>,
     type |-> "MA", description |-> Undefined],
    \* 0030 ; 004F 004F ; X   a target sequence that repeats a character
    [sourceHex |-> <<0, 0, 3, 0>>,
     targetHexStr |-> << <<0, 0, 4, 15>>, <<0, 0, 4, 15>> >>,
     type |-> "X", description |-> Undefined],
    \* 0030 ;  ; MA   a blank target field: "".split(/\s+/) is [""]
    [sourceHex |-> <<0, 0, 3, 0>>, targetHexStr |-> << <<>> >>,
     type |-> "MA", description |-> Undefined],
    \* 110000 ; 004F ; MA   a source above U+10FFFF
    [sourceHex |-> <<1, 1, 0, 0, 0, 0>>, targetHexStr |-> << <<0, 0, 4, 15>> >>,
     type |-> "MA", description |-> Undefined] }

\* the header lines, as the pieces line.split(":") yields, trimmed
HeaderLines ==
  { \* # Version: 16.0.0
    [key |-> "Version", fields |-> <<"# Version", "16.0.0">>],
    \* # Date: 2024-08-14, 23:05:00 GMT
    [key |-> "Date", fields |-> <<"# Date", "2024-08-14, 23", "05", "00 GMT">>] }

\* Math.random(), in quarters: 0 and 0.75
RandomDraws == {0, 3}

\* options.exclude: absent, or a Set of strings
ExcludeArgs ==
  { [given |-> FALSE, has |-> {}],
    [given |-> TRUE, has |-> {<<79>>}],
    [given |-> TRUE, has |-> {<<79>>, <<55349, 56334>>}] }

\* options.probability: absent, 0 or 1, as a fraction
ProbabilityArgs ==
  { [given |-> FALSE, num |-> 0, den |-> 1],
    [given |-> TRUE, num |-> 0, den |-> 1],
    [given |-> TRUE, num |-> 1, den |-> 1] }

\* RandomConfusableOptions & { probability?: number }
RandomizeOptions == [type : ConfusableType \cup {Undefined}, exclude : ExcludeArgs,
                     probability : ProbabilityArgs]

\* RandomConfusableOptions
RandomConfusableOptions == {o \in RandomizeOptions : ~o.probability.given}

\* the file read before the randomizing calls: a record of two targets, one
\* with its own source among its targets, and a source outside the BMP
RandomLines ==
  { \* 0030 ; 004F 1D40E ; MI
    [sourceHex |-> <<0, 0, 3, 0>>,
     targetHexStr |-> << <<0, 0, 4, 15>>, <<1, 13, 4, 0, 14>> >>,
     type |-> "MI", description |-> Undefined],
    \* 004F ; 004F 0030 ; MA
    [sourceHex |-> <<0, 0, 4, 15>>,
     targetHexStr |-> << <<0, 0, 4, 15>>, <<0, 0, 3, 0>> >>,
     type |-> "MA", description |-> Undefined],
    \* 1D40E ; 004F ; MA
    [sourceHex |-> <<1, 13, 4, 0, 14>>, targetHexStr |-> << <<0, 0, 4, 15>> >>,
     type |-> "MA", description |-> "MATHEMATICAL BOLD CAPITAL O"] }

RECURSIVE StringsUpTo(_)
StringsUpTo(n) ==
  IF n = 0 THEN {<<>>}
  ELSE LET shorter == StringsUpTo(n - 1)
       IN shorter \cup {Append(s, u) : s \in {t \in shorter : Len(t) = n - 1}, u \in Units}

Texts == StringsUpTo(MaxLen)

TypeArgs == ConfusableType \cup {Undefined}

(***************************************************************************)
(* parseConfusablesFile (scripts/update.ts).                               *)
(***************************************************************************)
\* obj[key] = value on a plain object
SetKey(obj, key, value) ==
  [k \in DOMAIN obj \cup {key} |-> IF k = key THEN value ELSE obj[k]]

\* the loop that builds the reverse lookup index for one record
RECURSIVE pushSources(_, _, _)
pushSources(rev, targetChars, sourceChar) ==
  IF targetChars = <<>> THEN rev
  ELSE LET targetChar == Head(targetChars)
           list == IF targetChar \in DOMAIN rev THEN rev[targetChar] ELSE <<>>
       IN pushSources(SetKey(rev, targetChar, Append(list, sourceChar)),
                      Tail(targetChars), sourceChar)

\* parseRecord losing the first target
parseRecord_dropFirstTarget(line) ==
  [source |-> fromCodePoint(parseInt16(line.sourceHex)),
   target |-> [i \in 1..(Len(line.targetHexStr) - 1) |->
                 fromCodePoint(parseInt16(line.targetHexStr[i + 1]))],
   type |-> line.type,
   description |-> line.description]

\* the record a mapping line yields
parseRecord(line) ==
  [source |-> fromCodePoint(parseInt16(line.sourceHex)),
   target |-> [i \in 1..Len(line.targetHexStr) |->
                 fromCodePoint(parseInt16(line.targetHexStr[i]))],
   type |-> line.type,
   description |-> line.description]

\* no call in progress
NoCall == [op |-> "none", text |-> <<>>, text2 |-> <<>>, type |-> Undefined, ret |-> <<>>]

\* a driver just made by tesseractDriver(options) or aiDriver(options): no
\* worker yet, no call in flight, no batch
InitDrivers ==
  /\ worker = 0
  /\ created = << >>
  /\ tasks = << >>
  /\ batch = [state |-> "none"]

Init ==
  /\ version = "unknown"
  /\ date = "unknown"
  /\ confusables = << >>
  /\ reverseLookup = << >>
  /\ pc = "parsing"
  /\ nread = 0
  /\ call = NoCall
  /\ InitDrivers

\* String.fromCodePoint(parseInt(hex, 16)) throws a RangeError: parseInt("")
\* is NaN, and no code point lies above U+10FFFF
throwsRangeError(line) ==
  \/ line.sourceHex = <<>> \/ parseInt16(line.sourceHex) > 1114111
  \/ \E i \in 1..Len(line.targetHexStr) :
       line.targetHexStr[i] = <<>> \/ parseInt16(line.targetHexStr[i]) > 1114111

\* one iteration of the loop over the lines, on a mapping line of the file
ParseLine(lines) ==
  /\ pc = "parsing"
  /\ nread < MaxLines
  /\ \E line \in lines :
       LET record == parseRecord(line)
       IN /\ ~throwsRangeError(line)
          /\ confusables' = SetKey(confusables, record.source, record)
          /\ reverseLookup' = pushSources(reverseLookup, record.target, record.source)
  /\ nread' = nread + 1
  /\ UNCHANGED <<version, date, pc, call>>
  /\ UNCHANGED ocrVars

ParseMappingLine == ParseLine(MappingLines)

\* one iteration on a "# Version:" or "# Date:" line: line.split(":")[1].trim()
ParseHeaderLine ==
  /\ pc = "parsing"
  /\ nread < MaxLines
  /\ \E line \in HeaderLines :
       /\ version' = IF line.key = "Version" THEN line.fields[2] ELSE version
       /\ date' = IF line.key = "Date" THEN line.fields[2] ELSE date
  /\ nread' = nread + 1
  /\ UNCHANGED <<confusables, reverseLookup, pc, call>>
  /\ UNCHANGED ocrVars

\* one iteration on a comment, a blank line or a line the pattern rejects
SkipLine ==
  /\ pc = "parsing"
  /\ nread < MaxLines
  /\ nread' = nread + 1
  /\ UNCHANGED <<version, date, confusables, reverseLookup, pc, call>>
  /\ UNCHANGED ocrVars

\* one iteration on a line whose field String.fromCodePoint rejects: the
\* RangeError leaves parseConfusablesFile and no dataset is written
ParseThrows ==
  /\ pc = "parsing"
  /\ nread < MaxLines
  /\ \E line \in FileLines : throwsRangeError(line)
  /\ pc' = "failed"
  /\ nread' = nread + 1
  /\ UNCHANGED <<version, date, confusables, reverseLookup, call>>
  /\ UNCHANGED ocrVars

\* the end of the file: the dataset is returned, written and bundled
FinishParse ==
  /\ pc = "parsing"
  /\ pc' = "loaded"
  /\ UNCHANGED <<version, date, confusables, reverseLookup, nread, call>>
  /\ UNCHANGED ocrVars

(***************************************************************************)
(* The operations of src/utils.ts.                                         *)
(***************************************************************************)
\* confusables.confusables[char]
lookup(char) ==
  IF char \in DOMAIN confusables THEN confusables[char] ELSE NoRecord

\* the null getConfusables returns
Null == [source |-> <<>>, target |-> <<>>, type |-> "null", description |-> Undefined]

\* getConfusables without "|| null": a missing key reads as undefined
getConfusables_noDefault(char) ==
  IF Len(char) = 0 THEN Null
  ELSE lookup(<<char[1]>>)
getConfusables(char) ==
  IF Len(char) = 0 THEN Null
  ELSE IF lookup(<<char[1]>>) # NoRecord THEN lookup(<<char[1]>>) ELSE Null

getConfusableSources(char) ==
  IF Len(char) = 0 THEN <<>>
  ELSE IF <<char[1]>> \in DOMAIN reverseLookup THEN reverseLookup[<<char[1]>>] ELSE <<>>

\* the loop of getMetadata counting only the MA records
RECURSIVE countTypes_onlyMA(_, _)
countTypes_onlyMA(keys, typeStats) ==
  IF keys = {} THEN typeStats
  ELSE LET k == CHOOSE key \in keys : TRUE
           record == confusables[k]
       IN countTypes_onlyMA(keys \ {k},
            IF record.type = "MA" THEN [typeStats EXCEPT !["MA"] = @ + 1] ELSE typeStats)

\* the loop of getMetadata: typeStats[record.type]++ for every record
RECURSIVE countTypes(_, _)
countTypes(keys, typeStats) ==
  IF keys = {} THEN typeStats
  ELSE LET k == CHOOSE key \in keys : TRUE
           record == confusables[k]
       IN countTypes(keys \ {k}, [typeStats EXCEPT ![record.type] = @ + 1])

getMetadata ==
  [version |-> version,
   date |-> date,
   totalMappings |-> Cardinality(DOMAIN confusables),
   reverseLookupEntries |-> Cardinality(DOMAIN reverseLookup),
   typeDistribution |-> countTypes(DOMAIN confusables, [c \in ConfusableType |-> 0])]

\* a default parameter: type: ConfusableType = "MA"
defaultType(type) == IF type = Undefined THEN "MA" ELSE type

\* normalizeString without the classification filter
normalizeString_anyType(text, typeArg) ==
  LET chars == split(text)
      mapped == [i \in 1..Len(chars) |->
                   LET confusable == lookup(chars[i])
                   IN IF confusable # NoRecord THEN confusable.target[1] ELSE chars[i]]
  IN join(mapped)

\* normalizeString substituting the whole target list, not its first element
normalizeString_joinTargets(text, typeArg) ==
  LET type == defaultType(typeArg)
      chars == split(text)
      mapped == [i \in 1..Len(chars) |->
                   LET confusable == lookup(chars[i])
                   IN IF confusable # NoRecord /\ confusable.type = type
                      THEN join(confusable.target)
                      ELSE chars[i]]
  IN join(mapped)

\* normalizeString dropping the characters that have no record of the type
normalizeString_dropUnmapped(text, typeArg) ==
  LET type == defaultType(typeArg)
      chars == split(text)
      mapped == [i \in 1..Len(chars) |->
                   LET confusable == lookup(chars[i])
                   IN IF confusable # NoRecord /\ confusable.type = type
                      THEN confusable.target[1]
                      ELSE <<>>]
  IN join(mapped)

normalizeString(text, typeArg) ==
  LET type == defaultType(typeArg)
      chars == split(text)
      mapped == [i \in 1..Len(chars) |->
                   LET confusable == lookup(chars[i])
                   IN IF confusable # NoRecord /\ confusable.type = type
                      THEN confusable.target[1]
                      ELSE chars[i]]
  IN join(mapped)

normalizeStringAll(text) ==
  LET chars == split(text)
      mapped == [i \in 1..Len(chars) |->
                   LET confusable == lookup(chars[i])
                   IN IF confusable # NoRecord
                      THEN confusable.target[1]
                      ELSE chars[i]]
  IN join(mapped)

\* areConfusable ignoring its type argument
areConfusable_alwaysMA(str1, str2, typeArg) ==
  normalizeString(str1, "MA") = normalizeString(str2, "MA")

\* areConfusable normalizing its first argument only
areConfusable_oneSided(str1, str2, typeArg) ==
  normalizeString(str1, defaultType(typeArg)) = str2

areConfusable(str1, str2, typeArg) ==
  LET type == defaultType(typeArg)
      normalized1 == normalizeString(str1, type)
      normalized2 == normalizeString(str2, type)
  IN normalized1 = normalized2

\* Set.prototype.add on a set kept in insertion order
setAdd(set, value) ==
  IF \E i \in 1..Len(set) : set[i] = value THEN set ELSE Append(set, value)

\* the first loop without the test of the record's type
RECURSIVE eligiblePositions_anyType(_, _, _)
eligiblePositions_anyType(chars, type, i) ==
  IF i > Len(chars) THEN <<>>
  ELSE LET confusable == lookup(chars[i])
       IN IF confusable # NoRecord /\ Len(confusable.target) > 0
          THEN <<i>> \o eligiblePositions_anyType(chars, type, i + 1)
          ELSE eligiblePositions_anyType(chars, type, i + 1)

\* the first loop of getConfusableVariations: the eligible positions
RECURSIVE eligiblePositions(_, _, _)
eligiblePositions(chars, type, i) ==
  IF i > Len(chars) THEN <<>>
  ELSE LET confusable == lookup(chars[i])
       IN IF confusable # NoRecord /\ confusable.type = type /\ Len(confusable.target) > 0
          THEN <<i>> \o eligiblePositions(chars, type, i + 1)
          ELSE eligiblePositions(chars, type, i + 1)

\* the inner loop inserting the target at pos instead of replacing the character
RECURSIVE addTargets_insert(_, _, _, _)
addTargets_insert(variations, chars, pos, targets) ==
  IF targets = <<>> THEN variations
  ELSE LET variation == SubSeq(chars, 1, pos - 1) \o <<Head(targets)>>
                          \o SubSeq(chars, pos, Len(chars))
       IN addTargets_insert(setAdd(variations, join(variation)), chars, pos, Tail(targets))

\* the inner loop: one variation per target of the record at pos
RECURSIVE addTargets(_, _, _, _)
addTargets(variations, chars, pos, targets) ==
  IF targets = <<>> THEN variations
  ELSE LET variation == [chars EXCEPT ![pos] = Head(targets)]
       IN addTargets(setAdd(variations, join(variation)), chars, pos, Tail(targets))

\* the outer loop over the eligible positions
RECURSIVE addPositions(_, _, _)
addPositions(variations, chars, positions) ==
  IF positions = <<>> THEN variations
  ELSE LET pos == Head(positions)
           confusable == lookup(chars[pos])
       IN addPositions(addTargets(variations, chars, pos, confusable.target),
                       chars, Tail(positions))

\* getConfusableVariations without variations.add(text)
getConfusableVariations_noInput(text, typeArg) ==
  LET type == defaultType(typeArg)
      chars == split(text)
      positions == eligiblePositions(chars, type, 1)
  IN addPositions(<<>>, chars, positions)

\* the result is Array.from(variations): the strings in insertion order
getConfusableVariations(text, typeArg) ==
  LET type == defaultType(typeArg)
      chars == split(text)
      positions == eligiblePositions(chars, type, 1)
  IN addPositions(<<text>>, chars, positions)

\* Math.floor(random * length), random given in quarters
randomIndex(random, length) == (random * length) \div 4

\* getRandomConfusable without the test of options.type
getRandomConfusable_ignoreType(char, options, random) ==
  IF Len(char) = 0 THEN char
  ELSE LET confusable == lookup(char)
       IN IF confusable = NoRecord \/ Len(confusable.target) = 0 THEN char
          ELSE LET targets == IF options.exclude.given
                              THEN SelectSeq(confusable.target,
                                             LAMBDA target : target \notin options.exclude.has)
                              ELSE confusable.target
               IN IF Len(targets) = 0 THEN char
                  ELSE targets[randomIndex(random, Len(targets)) + 1]

\* getRandomConfusable always taking the first remaining target
getRandomConfusable_firstTarget(char, options, random) ==
  IF Len(char) = 0 THEN char
  ELSE LET confusable == lookup(char)
       IN IF confusable = NoRecord \/ Len(confusable.target) = 0 THEN char
          ELSE IF options.type # Undefined /\ confusable.type # options.type THEN char
          ELSE LET targets == IF options.exclude.given
                              THEN SelectSeq(confusable.target,
                                             LAMBDA target : target \notin options.exclude.has)
                              ELSE confusable.target
               IN IF Len(targets) = 0 THEN char ELSE targets[1]

\* getRandomConfusable without the filter on options.exclude
getRandomConfusable_noExclude(char, options, random) ==
  IF Len(char) = 0 THEN char
  ELSE LET confusable == lookup(char)
       IN IF confusable = NoRecord \/ Len(confusable.target) = 0 THEN char
          ELSE IF options.type # Undefined /\ confusable.type # options.type THEN char
          ELSE confusable.target[randomIndex(random, Len(confusable.target)) + 1]

\* random is the value Math.random() returns
getRandomConfusable(char, options, random) ==
  IF Len(char) = 0 THEN char
  ELSE LET confusable == lookup(char)
       IN IF confusable = NoRecord \/ Len(confusable.target) = 0 THEN char
          ELSE IF options.type # Undefined /\ confusable.type # options.type THEN char
          ELSE LET targets == IF options.exclude.given
                              THEN SelectSeq(confusable.target,
                                             LAMBDA target : target \notin options.exclude.has)
                              ELSE confusable.target
               IN IF options.exclude.given /\ Len(targets) = 0 THEN char
                  ELSE targets[randomIndex(random, Len(targets)) + 1]

\* coins[i] and picks[i] are the values Math.random() returns for position i:
\* in randomizeConfusables and, when called, in getRandomConfusable
randomizeConfusables(text, options, coins, picks) ==
  LET num == IF options.probability.given THEN options.probability.num ELSE 1
      den == IF options.probability.given THEN options.probability.den ELSE 2
      chars == split(text)
      mapped == [i \in 1..Len(chars) |->
                   IF coins[i] * den < num * 4
                   THEN getRandomConfusable(chars[i], options, picks[i])
                   ELSE chars[i]]
  IN join(mapped)

(***************************************************************************)
(* The calls a client makes on the loaded dataset.                         *)
(***************************************************************************)
CallNormalizeString ==
  /\ pc = "loaded"
  /\ call = NoCall
  /\ \E text \in Texts, type \in TypeArgs :
       call' = [op |-> "normalizeString", text |-> text, text2 |-> <<>>,
                type |-> type, ret |-> normalizeString(text, type)]
  /\ UNCHANGED <<version, date, confusables, reverseLookup, pc, nread>>
  /\ UNCHANGED ocrVars

CallNormalizeStringAll ==
  /\ pc = "loaded"
  /\ call = NoCall
  /\ \E text \in Texts :
       call' = [op |-> "normalizeStringAll", text |-> text, text2 |-> <<>>,
                type |-> Undefined, ret |-> normalizeStringAll(text)]
  /\ UNCHANGED <<version, date, confusables, reverseLookup, pc, nread>>
  /\ UNCHANGED ocrVars

CallAreConfusable ==
  /\ pc = "loaded"
  /\ call = NoCall
  /\ \E str1 \in Texts, str2 \in Texts, type \in TypeArgs :
       call' = [op |-> "areConfusable", text |-> str1, text2 |-> str2,
                type |-> type, ret |-> areConfusable(str1, str2, type)]
  /\ UNCHANGED <<version, date, confusables, reverseLookup, pc, nread>>
  /\ UNCHANGED ocrVars

CallGetConfusableVariations ==
  /\ pc = "loaded"
  /\ call = NoCall
  /\ \E text \in Texts, type \in TypeArgs :
       call' = [op |-> "getConfusableVariations", text |-> text, text2 |-> <<>>,
                type |-> type, ret |-> getConfusableVariations(text, type)]
  /\ UNCHANGED <<version, date, confusables, reverseLookup, pc, nread>>
  /\ UNCHANGED ocrVars

\* the call returns its result to the client
Return ==
  /\ pc = "loaded"
  /\ call # NoCall
  /\ call' = NoCall
  /\ UNCHANGED <<version, date, confusables, reverseLookup, pc, nread>>
  /\ UNCHANGED ocrVars

CallGetConfusables ==
  /\ pc = "loaded"
  /\ call = NoCall
  /\ \E char \in Texts :
       call' = [op |-> "getConfusables", text |-> char, text2 |-> <<>>,
                type |-> Undefined, ret |-> getConfusables(char)]
  /\ UNCHANGED <<version, date, confusables, reverseLookup, pc, nread>>
  /\ UNCHANGED ocrVars

CallGetConfusableSources ==
  /\ pc = "loaded"
  /\ call = NoCall
  /\ \E char \in Texts :
       call' = [op |-> "getConfusableSources", text |-> char, text2 |-> <<>>,
                type |-> Undefined, ret |-> getConfusableSources(char)]
  /\ UNCHANGED <<version, date, confusables, reverseLookup, pc, nread>>
  /\ UNCHANGED ocrVars

CallGetMetadata ==
  /\ pc = "loaded"
  /\ call = NoCall
  /\ call' = [op |-> "getMetadata", text |-> <<>>, text2 |-> <<>>,
              type |-> Undefined, ret |-> getMetadata]
  /\ UNCHANGED <<version, date, confusables, reverseLookup, pc, nread>>
  /\ UNCHANGED ocrVars

\* getRandomConfusable filtering the record's own target list in place
CallGetRandomConfusable_filtersInPlace ==
  /\ pc = "loaded"
  /\ call = NoCall
  /\ \E char \in Texts, options \in RandomConfusableOptions, random \in RandomDraws :
       /\ call' = [op |-> "getRandomConfusable", text |-> char, options |-> options,
                   ret |-> getRandomConfusable(char, options, random)]
       /\ confusables' =
            IF char \in DOMAIN confusables /\ options.exclude.given
            THEN [confusables EXCEPT ![char].target =
                    SelectSeq(@, LAMBDA target : target \notin options.exclude.has)]
            ELSE confusables
  /\ UNCHANGED <<version, date, reverseLookup, pc, nread>>
  /\ UNCHANGED ocrVars

CallGetRandomConfusable ==
  /\ pc = "loaded"
  /\ call = NoCall
  /\ \E char \in Texts, options \in RandomConfusableOptions, random \in RandomDraws :
       call' = [op |-> "getRandomConfusable", text |-> char, options |-> options,
                ret |-> getRandomConfusable(char, options, random)]
  /\ UNCHANGED <<version, date, confusables, reverseLookup, pc, nread>>
  /\ UNCHANGED ocrVars

CallRandomizeConfusables ==
  /\ pc = "loaded"
  /\ call = NoCall
  /\ \E text \in Texts, options \in RandomizeOptions :
       \E coins \in [1..Len(text) -> RandomDraws], picks \in [1..Len(text) -> RandomDraws] :
         call' = [op |-> "randomizeConfusables", text |-> text, options |-> options,
                  ret |-> randomizeConfusables(text, options, coins, picks)]
  /\ UNCHANGED <<version, date, confusables, reverseLookup, pc, nread>>
  /\ UNCHANGED ocrVars

Next ==
  \/ ParseMappingLine
  \/ FinishParse
  \/ CallNormalizeString
  \/ CallNormalizeStringAll
  \/ CallAreConfusable
  \/ CallGetConfusableVariations
  \/ Return

Spec == Init /\ [][Next]_vars

\* the parser on whole files, and the lookups on what it built
ParseFileLine == ParseLine(FileLines)

NextParse ==
  \/ ParseHeaderLine
  \/ SkipLine
  \/ ParseFileLine
  \/ ParseThrows
  \/ FinishParse
  \/ CallGetConfusables
  \/ CallGetConfusableSources
  \/ CallGetMetadata
  \/ Return

SpecParse == Init /\ [][NextParse]_vars

\* the bundled documents the data module may find: two that satisfy the data
\* model, one whose record has an empty target list, one whose record lacks
\* its type
BundledDocuments ==
  LET zero == <<48>>
      O == <<79>>
      record(source, target, type) ==
        [source |-> source, target |-> target, type |-> type,
         description |-> Undefined]
  IN { [confusables |-> (zero :> record(zero, <<O>>, "MA")),
        reverseLookup |-> (O :> <<zero>>)],
       [confusables |-> (zero :> record(zero, <<O>>, "MA")) @@ (O :> record(O, <<zero>>, "MA")),
        reverseLookup |-> (O :> <<zero>>) @@ (zero :> <<O>>)],
       [confusables |-> (zero :> record(zero, <<>>, "MA")),
        reverseLookup |-> (O :> <<zero>>)],
       [confusables |-> (zero :> record(zero, <<O>>, Undefined)),
        reverseLookup |-> (O :> <<zero>>)] }

\* the bundled document before the data module is evaluated
InitLoad ==
  /\ version = "16.0.0"
  /\ date = "2024-08-14, 23"
  /\ \E document \in BundledDocuments :
       /\ confusables = document.confusables
       /\ reverseLookup = document.reverseLookup
  /\ pc = "bundled"
  /\ nread = 0
  /\ call = NoCall
  /\ InitDrivers

\* import { confusables } from "./data": the document becomes the dataset as
\* it is, no record is inspected
LoadData ==
  /\ pc = "bundled"
  /\ pc' = "loaded"
  /\ UNCHANGED <<version, date, confusables, reverseLookup, nread, call>>
  /\ UNCHANGED ocrVars

NextLoad ==
  \/ LoadData
  \/ CallGetConfusables
  \/ CallGetConfusableSources
  \/ CallGetConfusableVariations
  \/ Return

SpecLoad == InitLoad /\ [][NextLoad]_vars

\* the file read before a client's session with every operation: two lines
SessionLines ==
  { \* 0030 ; 004F ; MA
    [sourceHex |-> <<0, 0, 3, 0>>, targetHexStr |-> << <<0, 0, 4, 15>> >>,
     type |-> "MA", description |-> "DIGIT ZERO"],
    \* 004F ; 004F 0030 ; MA
    [sourceHex |-> <<0, 0, 4, 15>>,
     targetHexStr |-> << <<0, 0, 4, 15>>, <<0, 0, 3, 0>> >>,
     type |-> "MA", description |-> Undefined] }

ParseSessionLine == ParseLine(SessionLines)

\* every public operation, in any order, on a parsed dataset
NextSession ==
  \/ ParseSessionLine
  \/ FinishParse
  \/ CallGetConfusables
  \/ CallGetConfusableSources
  \/ CallNormalizeString
  \/ CallNormalizeStringAll
  \/ CallAreConfusable
  \/ CallGetConfusableVariations
  \/ CallGetRandomConfusable
  \/ CallRandomizeConfusables
  \/ CallGetMetadata
  \/ Return

SpecSession == Init /\ [][NextSession]_vars

\* the file read before the README's phishing check: the mappings the README
\* documents
ReadmeLines ==
  { \* 0030 ; 004F ; MA   getConfusables("0").target is ["O"]
    [sourceHex |-> <<0, 0, 3, 0>>, targetHexStr |-> << <<0, 0, 4, 15>> >>,
     type |-> "MA", description |-> "DIGIT ZERO"],
    \* 0031 ; 006C ; MA   getConfusables("1").target is ["l"]
    [sourceHex |-> <<0, 0, 3, 1>>, targetHexStr |-> << <<0, 0, 6, 12>> >>,
     type |-> "MA", description |-> "DIGIT ONE"],
    \* 006D ; 0072 006E ; MA   normalizeString("admin") is "adrin"
    [sourceHex |-> <<0, 0, 6, 13>>,
     targetHexStr |-> << <<0, 0, 7, 2>>, <<0, 0, 6, 14>> >>,
     type |-> "MA", description |-> Undefined] }

\* the three sites of the README: paypal.com, google.com, microsoft.com
legitimateSites ==
  << <<112, 97, 121, 112, 97, 108, 46, 99, 111, 109>>,
     <<103, 111, 111, 103, 108, 101, 46, 99, 111, 109>>,
     <<109, 105, 99, 114, 111, 115, 111, 102, 116, 46, 99, 111, 109>> >>

\* the urls checked: g00gle.com, go0gle.com, google.com, paypa1.com,
\* paypal.com, microsoft.com, micr0soft.com, examp1e.com, g00gle.co, 0, 1.com
\* and the empty string
Urls ==
  { <<103, 48, 48, 103, 108, 101, 46, 99, 111, 109>>,
    <<103, 111, 48, 103, 108, 101, 46, 99, 111, 109>>,
    <<103, 111, 111, 103, 108, 101, 46, 99, 111, 109>>,
    <<112, 97, 121, 112, 97, 49, 46, 99, 111, 109>>,
    <<112, 97, 121, 112, 97, 108, 46, 99, 111, 109>>,
    <<109, 105, 99, 114, 111, 115, 111, 102, 116, 46, 99, 111, 109>>,
    <<109, 105, 99, 114, 48, 115, 111, 102, 116, 46, 99, 111, 109>>,
    <<101, 120, 97, 109, 112, 49, 101, 46, 99, 111, 109>>,
    <<103, 48, 48, 103, 108, 101, 46, 99, 111>>,
    <<48>>,
    <<49, 46, 99, 111, 109>>,
    <<>> }

\* String.prototype.includes
includes(text, searchString) ==
  \E i \in 0..(Len(text) - Len(searchString)) :
    SubSeq(text, i + 1, i + Len(searchString)) = searchString

\* the loop over legitimateSites, from the site at index i on
RECURSIVE firstLookalike(_, _)
firstLookalike(normalized, i) ==
  IF i > Len(legitimateSites) THEN [suspicious |-> FALSE, looksLike |-> Undefined]
  ELSE IF includes(normalized, normalizeString(legitimateSites[i], Undefined))
       THEN [suspicious |-> TRUE, looksLike |-> legitimateSites[i]]
       ELSE firstLookalike(normalized, i + 1)

detectPhishingUrl(url) == firstLookalike(normalizeString(url, Undefined), 1)

ParseReadmeLine == ParseLine(ReadmeLines)

CallDetectPhishingUrl ==
  /\ pc = "loaded"
  /\ call = NoCall
  /\ \E url \in Urls :
       call' = [op |-> "detectPhishingUrl", text |-> url, text2 |-> <<>>,
                type |-> Undefined, ret |-> detectPhishingUrl(url)]
  /\ UNCHANGED <<version, date, confusables, reverseLookup, pc, nread>>
  /\ UNCHANGED ocrVars

NextReadme ==
  \/ ParseReadmeLine
  \/ FinishParse
  \/ CallDetectPhishingUrl
  \/ Return

SpecReadme == Init /\ [][NextReadme]_vars

\* the caller of getConfusableSources removes the last element of the array it
\* was handed (sources.pop()): the array is reverseLookup[char[0]] itself when
\* the key exists, the literal [] of the call otherwise
CallerModifiesSources ==
  /\ pc = "loaded"
  /\ call # NoCall
  /\ call.op = "getConfusableSources"
  /\ Len(call.ret) > 0
  /\ LET key == <<call.text[1]>>
         popped == SubSeq(call.ret, 1, Len(call.ret) - 1)
     IN /\ call' = [call EXCEPT !.ret = popped]
        /\ reverseLookup' = [reverseLookup EXCEPT ![key] = popped]
  /\ UNCHANGED <<version, date, confusables, pc, nread>>
  /\ UNCHANGED ocrVars

\* the caller of getConfusables assigns a field of the record it was handed
\* (record.type = "X"): the record is confusables[char[0]] itself
CallerModifiesRecord ==
  /\ pc = "loaded"
  /\ call # NoCall
  /\ call.op = "getConfusables"
  /\ call.ret # Null
  /\ call.ret.type # "X"
  /\ LET key == <<call.text[1]>>
         assigned == [call.ret EXCEPT !.type = "X"]
     IN /\ call' = [call EXCEPT !.ret = assigned]
        /\ confusables' = [confusables EXCEPT ![key] = assigned]
  /\ UNCHANGED <<version, date, reverseLookup, pc, nread>>
  /\ UNCHANGED ocrVars

\* lookups whose results the caller modifies, and the calls that follow
NextShared ==
  \/ ParseSessionLine
  \/ FinishParse
  \/ CallGetConfusables
  \/ CallGetConfusableSources
  \/ CallerModifiesSources
  \/ CallerModifiesRecord
  \/ CallNormalizeString
  \/ CallGetConfusableVariations
  \/ Return

SpecShared == Init /\ [][NextShared]_vars

\* the randomizing operations on a parsed dataset
ParseRandomLine == ParseLine(RandomLines)

NextRandom ==
  \/ ParseRandomLine
  \/ FinishParse
  \/ CallGetRandomConfusable
  \/ CallRandomizeConfusables
  \/ Return

SpecRandom == Init /\ [][NextRandom]_vars

(***************************************************************************)
(* The tesseract driver of unocr (src/drivers/tesseract.ts): recognize and *)
(* dispose.  worker is the driver's variable (0 for null); created[w] is   *)
(* the state of the w-th worker Tesseract.createWorker made; a task is one *)
(* asynchronous call, at the await it is suspended on.                     *)
(***************************************************************************)
\* the recognize() calls made so far
RecognizeTasks == {t \in DOMAIN tasks : tasks[t].op = "recognize"}

\* dispose() has been called
DisposeCalled == \E t \in DOMAIN tasks : tasks[t].op = "dispose"

\* recognize(input) up to its first suspension: initializeWorker returns the
\* driver's worker when there is one, and otherwise awaits createWorker
StartRecognize ==
  /\ Cardinality(RecognizeTasks) < MaxCalls
  /\ ~DisposeCalled
  /\ tasks' = Append(tasks,
                 IF worker # 0
                 THEN [op |-> "recognize", pc |-> "toUint8Array", worker |-> worker]
                 ELSE [op |-> "recognize", pc |-> "createWorker", worker |-> 0])
  /\ UNCHANGED <<worker, created, batch>>
  /\ UNCHANGED dataVars

\* Tesseract.createWorker resolves: worker = await ...; return worker
CreateWorkerResolves ==
  /\ \E t \in DOMAIN tasks :
       /\ tasks[t].op = "recognize"
       /\ tasks[t].pc = "createWorker"
       /\ created' = Append(created, "running")
       /\ worker' = Len(created) + 1
       /\ tasks' = [tasks EXCEPT ![t].pc = "toUint8Array", ![t].worker = Len(created) + 1]
  /\ UNCHANGED batch
  /\ UNCHANGED dataVars

\* Tesseract.createWorker rejects: recognize rejects
CreateWorkerRejects ==
  /\ \E t \in DOMAIN tasks :
       /\ tasks[t].op = "recognize"
       /\ tasks[t].pc = "createWorker"
       /\ tasks' = [tasks EXCEPT ![t].pc = "rejected"]
  /\ UNCHANGED <<worker, created, batch>>
  /\ UNCHANGED dataVars

\* toUint8Array(input) settles: on to worker.recognize, or recognize rejects
ToUint8ArraySettles ==
  /\ \E t \in DOMAIN tasks, outcome \in {"recognize", "rejected"} :
       /\ tasks[t].op = "recognize"
       /\ tasks[t].pc = "toUint8Array"
       /\ tasks' = [tasks EXCEPT ![t].pc = outcome]
  /\ UNCHANGED <<worker, created, batch>>
  /\ UNCHANGED dataVars

\* worker.recognize settles: recognize returns the result, or rejects
WorkerRecognizeSettles ==
  /\ \E t \in DOMAIN tasks, outcome \in {"fulfilled", "rejected"} :
       /\ tasks[t].op = "recognize"
       /\ tasks[t].pc = "recognize"
       /\ tasks' = [tasks EXCEPT ![t].pc = outcome]
  /\ UNCHANGED <<worker, created, batch>>
  /\ UNCHANGED dataVars

\* every recognize() call has returned
AllRecognizeReturned ==
  \A t \in RecognizeTasks : tasks[t].pc \in {"fulfilled", "rejected"}

\* dispose(), called after the recognize() calls have returned, up to its
\* suspension: if (worker) await worker.terminate()
StartDispose ==
  /\ ~DisposeCalled
  /\ RecognizeTasks # {}
  /\ AllRecognizeReturned
  /\ tasks' = Append(tasks,
                 IF worker # 0
                 THEN [op |-> "dispose", pc |-> "terminate", worker |-> worker]
                 ELSE [op |-> "dispose", pc |-> "fulfilled", worker |-> 0])
  /\ UNCHANGED <<worker, created, batch>>
  /\ UNCHANGED dataVars

\* worker.terminate() resolves: worker = null
TerminateResolves ==
  /\ \E t \in DOMAIN tasks :
       /\ tasks[t].op = "dispose"
       /\ tasks[t].pc = "terminate"
       /\ created' = [created EXCEPT ![tasks[t].worker] = "terminated"]
       /\ worker' = 0
       /\ tasks' = [tasks EXCEPT ![t].pc = "fulfilled"]
  /\ UNCHANGED batch
  /\ UNCHANGED dataVars

NextTesseract ==
  \/ StartRecognize
  \/ CreateWorkerResolves
  \/ CreateWorkerRejects
  \/ ToUint8ArraySettles
  \/ WorkerRecognizeSettles
  \/ StartDispose
  \/ TerminateResolves

SpecTesseract == Init /\ [][NextTesseract]_vars

(***************************************************************************)
(* The tesseract driver: recognizes(inputs, recognizesOptions).  An input  *)
(* is given by what becomes of it: a page converts and is recognized, a    *)
(* blank page is recognized with no hOCR, an unreadable input makes        *)
(* toUint8Array reject, a garbled one makes the worker's recognize reject. *)
(***************************************************************************)
InputKinds == {"page", "blank", "unreadable", "garbled"}

\* the inputs of a batch: up to MaxInputs of them
InputLists == UNION {[1..n -> InputKinds] : n \in 0..MaxInputs}

OutputTypes == {"hast", "html", Undefined}

\* recognizesOptions.parallel: absent, or a number
ParallelArgs ==
  { [given |-> FALSE, value |-> 0],
    [given |-> TRUE, value |-> 1],
    [given |-> TRUE, value |-> 2] }

\* result.data.hocr || "" for the input at index: the text of a page is its own
hocr(inputs, index) ==
  IF inputs[index] = "page" THEN <<"hocr", index>> ELSE <<>>

\* fromHtml(html): the document tree of hast-util-from-html
fromHtml(html) ==
  [type |-> "root", children |-> <<[type |-> "element", tagName |-> "html", html |-> html]>>]

\* { type: "root", children: [] }
EmptyRoot == [type |-> "root", children |-> <<>>]

\* what the async function of one input returns
jobValue(inputs, index, outputType) ==
  IF outputType = "hast" THEN fromHtml(hocr(inputs, index)) ELSE hocr(inputs, index)

\* Math.min(inputs.length, recognizesOptions.parallel || 4)
workerCount(inputs, parallel) ==
  LET p == IF ~parallel.given \/ parallel.value = 0 THEN 4 ELSE parallel.value
  IN IF Len(inputs) < p THEN Len(inputs) ELSE p

\* a promise settling where the earliest pending promise stands
settle_inCompletionOrder(settled, index, outcome) ==
  LET first == CHOOSE i \in DOMAIN settled :
                 /\ settled[i].status = "pending"
                 /\ \A j \in DOMAIN settled : settled[j].status = "pending" => i <= j
  IN [settled EXCEPT ![first] = outcome]

\* Promise.allSettled: the outcome of the promise at index takes its place
settle(settled, index, outcome) ==
  [settled EXCEPT ![index] = outcome]

\* the workers added to the scheduler
schedulerWorkers == {batch.workers[i] : i \in DOMAIN batch.workers}

\* recognizes is called: createScheduler(), workers = []
CallRecognizes ==
  /\ batch.state = "none"
  /\ \E inputs \in InputLists, outputType \in OutputTypes, parallel \in ParallelArgs :
       batch' = [state |-> "createWorkers", inputs |-> inputs, outputType |-> outputType,
                 parallel |-> parallel, workers |-> <<>>,
                 settled |-> [i \in 1..Len(inputs) |-> [status |-> "pending"]]]
  /\ UNCHANGED <<worker, created, tasks>>
  /\ UNCHANGED dataVars

\* one iteration of the loop creating the workers
CreateBatchWorker ==
  /\ batch.state = "createWorkers"
  /\ Len(batch.workers) < workerCount(batch.inputs, batch.parallel)
  /\ created' = Append(created, "running")
  /\ batch' = [batch EXCEPT !.workers = Append(@, Len(created) + 1)]
  /\ UNCHANGED <<worker, tasks>>
  /\ UNCHANGED dataVars

\* inputs.map(async (input) => ...): every input's function runs up to its
\* await of toUint8Array
MapInputs ==
  /\ batch.state = "createWorkers"
  /\ Len(batch.workers) = workerCount(batch.inputs, batch.parallel)
  /\ tasks' = [i \in 1..Len(batch.inputs) |->
                 [op |-> "job", pc |-> "toUint8Array", index |-> i, worker |-> 0]]
  /\ batch' = [batch EXCEPT !.state = "allSettled"]
  /\ UNCHANGED <<worker, created>>
  /\ UNCHANGED dataVars

\* toUint8Array(input) settles: scheduler.addJob queues the job, or the
\* input's promise rejects
JobConverts ==
  /\ batch.state = "allSettled"
  /\ \E t \in DOMAIN tasks :
       /\ tasks[t].pc = "toUint8Array"
       /\ IF batch.inputs[tasks[t].index] = "unreadable"
          THEN /\ tasks' = [tasks EXCEPT ![t].pc = "rejected"]
               /\ batch' = [batch EXCEPT !.settled =
                              settle(@, tasks[t].index, [status |-> "rejected"])]
          ELSE /\ tasks' = [tasks EXCEPT ![t].pc = "addJob"]
               /\ UNCHANGED batch
  /\ UNCHANGED <<worker, created>>
  /\ UNCHANGED dataVars

\* the scheduler hands a queued job to a worker that runs none
SchedulerRunsJob ==
  /\ batch.state = "allSettled"
  /\ \E t \in DOMAIN tasks, w \in schedulerWorkers :
       /\ tasks[t].pc = "addJob"
       /\ \A u \in DOMAIN tasks : ~(tasks[u].pc = "recognize" /\ tasks[u].worker = w)
       /\ tasks' = [tasks EXCEPT ![t].pc = "recognize", ![t].worker = w]
  /\ UNCHANGED <<worker, created, batch>>
  /\ UNCHANGED dataVars

\* the job settles: the input's promise fulfils with its value, or rejects
JobSettles ==
  /\ batch.state = "allSettled"
  /\ \E t \in DOMAIN tasks :
       LET index == tasks[t].index
       IN /\ tasks[t].pc = "recognize"
          /\ IF batch.inputs[index] = "garbled"
             THEN /\ tasks' = [tasks EXCEPT ![t].pc = "rejected"]
                  /\ batch' = [batch EXCEPT !.settled =
                                 settle(@, index, [status |-> "rejected"])]
             ELSE /\ tasks' = [tasks EXCEPT ![t].pc = "fulfilled"]
                  /\ batch' = [batch EXCEPT !.settled =
                                 settle(@, index,
                                        [status |-> "fulfilled",
                                         value |-> jobValue(batch.inputs, index,
                                                            batch.outputType)])]
  /\ UNCHANGED <<worker, created>>
  /\ UNCHANGED dataVars

\* results.map: the value of a fulfilled promise, an empty result otherwise
resultOf(result, outputType) ==
  IF result.status = "fulfilled" THEN result.value
  ELSE IF outputType = "hast" THEN EmptyRoot ELSE <<>>

\* Promise.allSettled resolves; the results are mapped and returned through
\* the finally block
AllSettled ==
  /\ batch.state = "allSettled"
  /\ \A i \in DOMAIN batch.settled : batch.settled[i].status # "pending"
  /\ batch' = [state |-> "finally", inputs |-> batch.inputs,
               outputType |-> batch.outputType, parallel |-> batch.parallel,
               workers |-> batch.workers, settled |-> batch.settled,
               ret |-> [i \in DOMAIN batch.settled |->
                          resultOf(batch.settled[i], batch.outputType)]]
  /\ UNCHANGED <<worker, created, tasks>>
  /\ UNCHANGED dataVars

\* await scheduler.terminate(): the workers of the batch are terminated and
\* recognizes resolves
SchedulerTerminates ==
  /\ batch.state = "finally"
  /\ created' = [w \in DOMAIN created |->
                   IF w \in schedulerWorkers THEN "terminated" ELSE created[w]]
  /\ batch' = [batch EXCEPT !.state = "returned"]
  /\ UNCHANGED <<worker, tasks>>
  /\ UNCHANGED dataVars

NextRecognizes ==
  \/ CallRecognizes
  \/ CreateBatchWorker
  \/ MapInputs
  \/ JobConverts
  \/ SchedulerRunsJob
  \/ JobSettles
  \/ AllSettled
  \/ SchedulerTerminates

SpecRecognizes == Init /\ [][NextRecognizes]_vars

(***************************************************************************)
(* The AI driver of unocr: recognizes(inputs, recognizesOptions).  The     *)
(* inputs are those of the tesseract driver: an unreadable input makes     *)
(* toBase64 reject, a garbled one makes generateText reject.               *)
(***************************************************************************)
\* recognizesOptions.parallel || inputs.length
aiParallel(inputs, parallel) ==
  IF ~parallel.given \/ parallel.value = 0 THEN Len(inputs) ELSE parallel.value

\* Math.ceil(length / parallel)
ceilDiv(length, parallel) == (length + parallel - 1) \div parallel

\* Math.floor(index / Math.ceil(inputs.length / parallel)), index from 0
batchIndex(index, inputs, parallel) ==
  index \div ceilDiv(Len(inputs), aiParallel(inputs, parallel))

\* the delay of the input at index: 100 ms per batch
delay(index, inputs, parallel) == batchIndex(index, inputs, parallel) * 100

\* the recognize calls of the batch that have started and not yet settled
InFlight == {t \in DOMAIN tasks : tasks[t].pc \in {"toBase64", "generateText"}}

\* recognizes is called: inputs.map starts recognize(input) for the inputs of
\* delay 0 and sets a timer for each of the others
CallAiRecognizes ==
  /\ batch.state = "none"
  /\ \E inputs \in InputLists, outputType \in OutputTypes, parallel \in ParallelArgs :
       /\ batch' = [state |-> "aiAllSettled", inputs |-> inputs, outputType |-> outputType,
                    parallel |-> parallel, workers |-> <<>>,
                    settled |-> [i \in 1..Len(inputs) |-> [status |-> "pending"]]]
       /\ tasks' = [i \in 1..Len(inputs) |->
                      [op |-> "recognize",
                       pc |-> IF delay(i - 1, inputs, parallel) > 0
                              THEN "setTimeout" ELSE "toBase64",
                       index |-> i,
                       delay |-> delay(i - 1, inputs, parallel)]]
  /\ UNCHANGED <<worker, created>>
  /\ UNCHANGED dataVars

\* a timer fires, none of a shorter delay being left: recognize(input) starts
TimerFires ==
  /\ batch.state = "aiAllSettled"
  /\ \E t \in DOMAIN tasks :
       /\ tasks[t].pc = "setTimeout"
       /\ \A u \in DOMAIN tasks :
            tasks[u].pc = "setTimeout" => tasks[t].delay <= tasks[u].delay
       /\ tasks' = [tasks EXCEPT ![t].pc = "toBase64"]
  /\ UNCHANGED <<worker, created, batch>>
  /\ UNCHANGED dataVars

\* toBase64(input) settles: on to generateText, or the input's promise rejects
ToBase64Settles ==
  /\ batch.state = "aiAllSettled"
  /\ \E t \in DOMAIN tasks :
       /\ tasks[t].pc = "toBase64"
       /\ IF batch.inputs[tasks[t].index] = "unreadable"
          THEN /\ tasks' = [tasks EXCEPT ![t].pc = "rejected"]
               /\ batch' = [batch EXCEPT !.settled =
                              settle(@, tasks[t].index, [status |-> "rejected"])]
          ELSE /\ tasks' = [tasks EXCEPT ![t].pc = "generateText"]
               /\ UNCHANGED batch
  /\ UNCHANGED <<worker, created>>
  /\ UNCHANGED dataVars

\* generateText settles: the input's promise fulfils with the text or its
\* tree, or rejects
GenerateTextSettles ==
  /\ batch.state = "aiAllSettled"
  /\ \E t \in DOMAIN tasks :
       LET index == tasks[t].index
       IN /\ tasks[t].pc = "generateText"
          /\ IF batch.inputs[index] = "garbled"
             THEN /\ tasks' = [tasks EXCEPT ![t].pc = "rejected"]
                  /\ batch' = [batch EXCEPT !.settled =
                                 settle(@, index, [status |-> "rejected"])]
             ELSE /\ tasks' = [tasks EXCEPT ![t].pc = "fulfilled"]
                  /\ batch' = [batch EXCEPT !.settled =
                                 settle(@, index,
                                        [status |-> "fulfilled",
                                         value |-> jobValue(batch.inputs, index,
                                                            batch.outputType)])]
  /\ UNCHANGED <<worker, created>>
  /\ UNCHANGED dataVars

\* Promise.allSettled resolves; the results are mapped and returned
AiAllSettled ==
  /\ batch.state = "aiAllSettled"
  /\ \A i \in DOMAIN batch.settled : batch.settled[i].status # "pending"
  /\ batch' = [state |-> "returned", inputs |-> batch.inputs,
               outputType |-> batch.outputType, parallel |-> batch.parallel,
               workers |-> batch.workers, settled |-> batch.settled,
               ret |-> [i \in DOMAIN batch.settled |->
                          resultOf(batch.settled[i], batch.outputType)]]
  /\ UNCHANGED <<worker, created, tasks>>
  /\ UNCHANGED dataVars

NextAi ==
  \/ CallAiRecognizes
  \/ TimerFires
  \/ ToBase64Settles
  \/ GenerateTextSettles
  \/ AiAllSettled

SpecAi == Init /\ [][NextAi]_vars

(***************************************************************************)
(* Vocabulary of the properties.  A character is a Unicode code point      *)
(* (spec, section 3); a record of the dataset is keyed by its source.      *)
(***************************************************************************)
IsHighSurrogate(u) == u >= 55296 /\ u <= 56319
IsLowSurrogate(u) == u >= 56320 /\ u <= 57343

\* the code points of a string, each as the string of its code units
\* (the string iterator: a high surrogate followed by a low one is one code point)
RECURSIVE codePoints(_)
codePoints(text) ==
  IF text = <<>> THEN <<>>
  ELSE IF Len(text) >= 2 /\ IsHighSurrogate(text[1]) /\ IsLowSurrogate(text[2])
       THEN <<SubSeq(text, 1, 2)>> \o codePoints(SubSeq(text, 3, Len(text)))
       ELSE <<SubSeq(text, 1, 1)>> \o codePoints(Tail(text))

\* the number of characters of a string, counted in code points
codePointLength(text) == Len(codePoints(text))

\* the character ch has a record of classification type
HasRecordOf(ch, type) == ch \in DOMAIN confusables /\ confusables[ch].type = type

\* the text holds no surrogate code unit: all its characters are in the BMP
InBMP(text) ==
  \A i \in 1..Len(text) : ~IsHighSurrogate(text[i]) /\ ~IsLowSurrogate(text[i])

\* a single character outside the BMP
IsAstralChar(text) ==
  Len(text) = 2 /\ IsHighSurrogate(text[1]) /\ IsLowSurrogate(text[2])

\* the elements of a list
Range(list) == {list[i] : i \in 1..Len(list)}

\* normalization as the specification states it, character by character
SpecNormalize(text, type) ==
  LET cps == codePoints(text)
  IN join([i \in 1..Len(cps) |->
             IF HasRecordOf(cps[i], type) THEN confusables[cps[i]].target[1] ELSE cps[i]])

\* the alternatives of one position: the character, and its record's targets
Alternatives(ch, type) ==
  {ch} \cup (IF HasRecordOf(ch, type) THEN Range(confusables[ch].target) ELSE {})

\* the Cartesian product of the alternatives of all positions
RECURSIVE Product(_, _)
Product(chars, type) ==
  IF chars = <<>> THEN {<<>>}
  ELSE {a \o rest : a \in Alternatives(Head(chars), type), rest \in Product(Tail(chars), type)}

\* no record of classification type has a first target that is itself the
\* source of a record of classification type
FirstTargetsAreFixed(type) ==
  \A k \in DOMAIN confusables :
    confusables[k].type = type => ~HasRecordOf(confusables[k].target[1], type)

(***************************************************************************)
(* C1..C10                                                                 *)
(***************************************************************************)
\* C1: normalizeString(text, type) returns, position by position, the first
\* target of the record of every character that has a record of classification
\* type (MA when type is omitted), and the character itself otherwise.
C1_NormalizeReplacesEveryCharacter ==
  call.op = "normalizeString" =>
    call.ret = SpecNormalize(call.text, defaultType(call.type))

\* C2: getConfusableVariations(text, type) returns exactly the strings of the
\* Cartesian product, over all positions, of the character and the targets of
\* its record of classification type.  Stated for texts within the BMP, where a
\* position is the same thing in code units and in code points.
C2_VariationsAreCartesianProduct ==
  (call.op = "getConfusableVariations" /\ InBMP(call.text)) =>
    Range(call.ret) = Product(codePoints(call.text), defaultType(call.type))

\* C3: a character outside the BMP that has a record of the selected
\* classification (of any classification for normalizeStringAll) is replaced by
\* the record's first target.
C3_AstralSourceIsReplaced ==
  /\ (call.op = "normalizeString" /\ IsAstralChar(call.text)
        /\ HasRecordOf(call.text, defaultType(call.type)))
       => call.ret = confusables[call.text].target[1]
  /\ (call.op = "normalizeStringAll" /\ IsAstralChar(call.text)
        /\ call.text \in DOMAIN confusables)
       => call.ret = confusables[call.text].target[1]

\* C4: areConfusable(a, b, type) is true exactly when normalizeString(a, type)
\* and normalizeString(b, type) are the same string (type MA when omitted); with
\* '0' -> ['O'] as MA and no record for u nor 'O', areConfusable('0u', 'Ou').
C4_AreConfusableIffNormalizedEqual ==
  call.op = "areConfusable" =>
    /\ call.ret = (normalizeString(call.text, call.type) = normalizeString(call.text2, call.type))
    /\ \A u \in Units :
         ( /\ call.type \in {"MA", Undefined}
           /\ HasRecordOf(<<48>>, "MA") /\ confusables[<<48>>].target = << <<79>> >>
           /\ <<79>> \notin DOMAIN confusables /\ <<u>> \notin DOMAIN confusables
           /\ call.text = <<48, u>> /\ call.text2 = <<79, u>> )
         => call.ret = TRUE

C4_Witness ==
  /\ call.op = "areConfusable"
  /\ call.type = Undefined
  /\ HasRecordOf(<<48>>, "MA") /\ <<79>> \notin DOMAIN confusables
  /\ call.text = <<48, 79>> /\ call.text2 = <<79, 79>>
  /\ call.ret = TRUE

\* C5 as stated: normalization is idempotent for every string and every
\* classification.
C5_NormalizeIdempotent ==
  call.op = "normalizeString" =>
    normalizeString(call.ret, call.type) = call.ret

\* C5 as amended: normalization with classification c is idempotent whenever no
\* record of classification c has a first target that is itself the source of a
\* record of classification c.
C5_NormalizeIdempotentOnFixedTargets ==
  (call.op = "normalizeString" /\ FirstTargetsAreFixed(defaultType(call.type))) =>
    normalizeString(call.ret, call.type) = call.ret

C5_Witness ==
  /\ call.op = "normalizeString"
  /\ FirstTargetsAreFixed(defaultType(call.type))
  /\ Cardinality(DOMAIN confusables) = 2
  /\ call.ret # call.text
  /\ normalizeString(call.ret, call.type) = call.ret

\* C6: normalizeString(s, c) has as many characters, counted in code points,
\* as s.
C6_NormalizePreservesLength ==
  call.op = "normalizeString" =>
    codePointLength(call.ret) = codePointLength(call.text)

C6_Witness ==
  /\ call.op = "normalizeString"
  /\ Len(call.text) = MaxLen
  /\ call.ret # call.text
  /\ Len(call.ret) # Len(call.text)
  /\ codePointLength(call.ret) = codePointLength(call.text)

\* C7: areConfusable is reflexive and symmetric for every classification.
C7_AreConfusableReflexiveSymmetric ==
  call.op = "areConfusable" =>
    /\ (call.text = call.text2 => call.ret = TRUE)
    /\ call.ret = areConfusable(call.text2, call.text, call.type)

C7_Witness ==
  /\ call.op = "areConfusable"
  /\ call.text # call.text2
  /\ normalizeString(call.text, call.type) # call.text
  /\ normalizeString(call.text2, call.type) = call.text2
  /\ call.ret = TRUE
  /\ areConfusable(call.text2, call.text, call.type)

\* C8 as stated, with the length a caller compares, String.length (UTF-16 code
\* units): two inputs of unequal length are never reported confusable.
C8_UnequalLengthNeverConfusable ==
  (call.op = "areConfusable" /\ Len(call.text) # Len(call.text2)) =>
    call.ret = FALSE

\* C8 as amended: two inputs with unequal numbers of characters, counted in
\* code points, are never reported confusable.
C8_UnequalCodePointLengthNeverConfusable ==
  (call.op = "areConfusable"
     /\ codePointLength(call.text) # codePointLength(call.text2)) =>
    call.ret = FALSE

C8_Witness ==
  /\ call.op = "areConfusable"
  /\ codePointLength(call.text) # codePointLength(call.text2)
  /\ normalizeString(call.text, call.type) # call.text
  /\ Len(normalizeString(call.text, call.type)) = Len(normalizeString(call.text2, call.type))
  /\ call.ret = FALSE

EligibleAt(text, type) ==
  LET cps == codePoints(text)
  IN {i \in 1..Len(cps) : HasRecordOf(cps[i], type)}

\* a list without its repeated elements, in the order of first occurrence
RECURSIVE Distinct(_)
Distinct(list) ==
  IF list = <<>> THEN <<>>
  ELSE LET front == Distinct(SubSeq(list, 1, Len(list) - 1))
           last == list[Len(list)]
       IN IF last \in Range(front) THEN front ELSE Append(front, last)

\* the text, then the text with position i replaced by each target in turn
SingleSubstitutions(text, i) ==
  LET cps == codePoints(text)
      targets == confusables[cps[i]].target
  IN Distinct(<<text>> \o [k \in 1..Len(targets) |-> join([cps EXCEPT ![i] = targets[k]])])

\* C11: for a text with at most one eligible position, getConfusableVariations
\* returns the input followed by the input with that position replaced by
\* each target of the record, without duplicates; with no eligible position
\* it returns the one-element list of the text.
C11_SinglePositionVariations ==
  LET type == defaultType(call.type)
      eligible == EligibleAt(call.text, type)
  IN (call.op = "getConfusableVariations" /\ Cardinality(eligible) <= 1) =>
       call.ret = IF eligible = {} THEN <<call.text>>
                  ELSE SingleSubstitutions(call.text, CHOOSE i \in eligible : TRUE)

\* the product over the positions of 1 + the number of eligible targets
RECURSIVE ProductBound(_, _)
ProductBound(chars, type) ==
  IF chars = <<>> THEN 1
  ELSE (1 + (IF HasRecordOf(Head(chars), type) THEN Len(confusables[Head(chars)].target) ELSE 0))
         * ProductBound(Tail(chars), type)

\* C12: getConfusableVariations never returns more strings than the product,
\* over the positions of the text, of 1 + the number of eligible targets there.
C12_VariationCountBound ==
  call.op = "getConfusableVariations" =>
    Len(call.ret) <= ProductBound(codePoints(call.text), defaultType(call.type))

C12_Witness ==
  /\ call.op = "getConfusableVariations"
  /\ Cardinality(EligibleAt(call.text, defaultType(call.type))) = 2
  /\ Len(call.ret) >= 5
  /\ Len(call.ret) < ProductBound(codePoints(call.text), defaultType(call.type))

\* the record of char passes the filter of options.type
TypeAllows(char, options) ==
  /\ char \in DOMAIN confusables
  /\ (options.type = Undefined \/ confusables[char].type = options.type)

\* the targets of char's record that options.exclude does not hold
NonExcluded(char, options) ==
  {t \in Range(confusables[char].target) : ~(options.exclude.given /\ t \in options.exclude.has)}

\* C13: getRandomConfusable returns char unchanged whenever char is empty, has
\* no record, has a record of another classification than options.type, or
\* has all its targets in options.exclude.
C13_RandomConfusableDegradesToIdentity ==
  (call.op = "getRandomConfusable"
     /\ \/ call.text = <<>>
        \/ call.text \notin DOMAIN confusables
        \/ ~TypeAllows(call.text, call.options)
        \/ NonExcluded(call.text, call.options) = {}) =>
    call.ret = call.text

C13_Witness ==
  /\ call.op = "getRandomConfusable"
  /\ TypeAllows(call.text, call.options)
  /\ call.options.type # Undefined
  /\ Len(confusables[call.text].target) = 2
  /\ NonExcluded(call.text, call.options) = {}
  /\ call.ret = call.text

\* C14 as stated: for a character whose record matches options.type and has a
\* target outside options.exclude, the possible results are exactly the
\* non-excluded targets: no excluded target, not the original character, and
\* every non-excluded target for some value of Math.random().
C14_RandomConfusableIsANonExcludedTarget ==
  (call.op = "getRandomConfusable"
     /\ TypeAllows(call.text, call.options)
     /\ NonExcluded(call.text, call.options) # {}) =>
    /\ call.ret \in NonExcluded(call.text, call.options)
    /\ call.ret # call.text
    /\ \A t \in NonExcluded(call.text, call.options) :
         \E random \in RandomDraws : getRandomConfusable(call.text, call.options, random) = t

\* C14 as amended: the possible results are exactly the non-excluded targets;
\* the original character is returned only when it is one of them.
C14_RandomConfusableResults ==
  (call.op = "getRandomConfusable"
     /\ TypeAllows(call.text, call.options)
     /\ NonExcluded(call.text, call.options) # {}) =>
    /\ call.ret \in NonExcluded(call.text, call.options)
    /\ (call.ret = call.text => call.text \in Range(confusables[call.text].target))
    /\ \A t \in NonExcluded(call.text, call.options) :
         \E random \in RandomDraws : getRandomConfusable(call.text, call.options, random) = t

C14_Witness ==
  /\ call.op = "getRandomConfusable"
  /\ TypeAllows(call.text, call.options)
  /\ call.options.exclude.given
  /\ Cardinality(Range(confusables[call.text].target)) = 2
  /\ Cardinality(NonExcluded(call.text, call.options)) = 1
  /\ call.ret \in NonExcluded(call.text, call.options)
  /\ call.ret # call.text

\* C15: randomizeConfusables returns a string of the length of the text in which
\* every position holds the original character or a non-excluded target of
\* that character's record of the requested classification.
C15_RandomizeKeepsPositions ==
  call.op = "randomizeConfusables" =>
    LET from == codePoints(call.text)
        to == codePoints(call.ret)
    IN /\ Len(to) = Len(from)
       /\ \A i \in 1..Len(from) :
            \/ to[i] = from[i]
            \/ /\ TypeAllows(from[i], call.options)
               /\ to[i] \in NonExcluded(from[i], call.options)

C15_Witness ==
  /\ call.op = "randomizeConfusables"
  /\ Len(call.text) = MaxLen
  /\ call.options.exclude.given
  /\ call.options.type # Undefined
  /\ LET from == codePoints(call.text)
         to == codePoints(call.ret)
     IN /\ Len(to) = Len(from)
        /\ \E i \in 1..Len(from) : to[i] # from[i]
        /\ \E i \in 1..Len(from) : to[i] = from[i] /\ TypeAllows(from[i], call.options)

\* C16: getConfusables(s) returns, for every non-empty s, the record whose
\* source is the first code point of s, also outside the BMP, and null when
\* there is none; the later characters of s do not matter.
C16_GetConfusablesOfFirstCodePoint ==
  (call.op = "getConfusables" /\ call.text # <<>>) =>
    LET first == codePoints(call.text)[1]
    IN call.ret = IF first \in DOMAIN confusables THEN confusables[first] ELSE Null

\* C17: for every record r of the parsed dataset and every element t of
\* r.target, getConfusableSources(t) contains r.source.
C17_SourcesOfEveryTarget ==
  call.op = "getConfusableSources" =>
    \A k \in DOMAIN confusables :
      call.text \in Range(confusables[k].target) => confusables[k].source \in Range(call.ret)

\* C18: reverseLookup[t] is the set, in insertion order, of exactly the
\* sources whose record has t among its targets: no source twice, no source
\* whose record lacks t.
C18_ReverseLookupIsExact ==
  pc = "loaded" =>
    \A t \in DOMAIN reverseLookup :
      LET sources == reverseLookup[t]
      IN /\ \A i, j \in 1..Len(sources) : sources[i] = sources[j] => i = j
         /\ Range(sources) =
              {k \in DOMAIN confusables : t \in Range(confusables[k].target)}

\* C19 as stated: every record has a non-empty target list and a source that
\* is not an element of its target list, for every input file.
C19_RecordsAreWellFormed ==
  pc = "loaded" =>
    \A k \in DOMAIN confusables :
      /\ Len(confusables[k].target) > 0
      /\ confusables[k].source \notin Range(confusables[k].target)

\* C19 as amended: every record has a non-empty target list, for every input
\* file; its source is an element of its target list only when the record
\* transcribes a line that lists the source among its own targets.
C19_TargetsNonEmptySourceAsListed ==
  pc = "loaded" =>
    \A k \in DOMAIN confusables :
      /\ Len(confusables[k].target) > 0
      /\ confusables[k].source = k
      /\ confusables[k].source \in Range(confusables[k].target) =>
           \E line \in FileLines :
             /\ parseInt16(line.sourceHex) \in
                  {parseInt16(line.targetHexStr[i]) : i \in 1..Len(line.targetHexStr)}
             /\ ~throwsRangeError(line)
             /\ confusables[k] = parseRecord(line)

C19_Witness ==
  /\ pc = "loaded"
  /\ Cardinality(DOMAIN confusables) = 2
  /\ \A k \in DOMAIN confusables : Len(confusables[k].target) > 0
  /\ \E k \in DOMAIN confusables : confusables[k].source \in Range(confusables[k].target)
  /\ \E k \in DOMAIN confusables : confusables[k].source \notin Range(confusables[k].target)

\* the data model of a dataset: every record has its four fields' required
\* values, a non-empty target list, and a source that is not a target
SatisfiesDataModel ==
  \A k \in DOMAIN confusables :
    /\ confusables[k].source = k
    /\ confusables[k].type \in ConfusableType
    /\ Len(confusables[k].target) > 0
    /\ confusables[k].source \notin Range(confusables[k].target)

\* C20: a dataset that violates the data model (a record missing a required
\* field, a source mapped to an empty target list) is rejected at load time:
\* it is never the loaded dataset, and no call ever returns a result on it.
C20_InvalidDatasetIsRejected ==
  (pc = "loaded" \/ call # NoCall) => SatisfiesDataModel

\* C21: getConfusables('') is null and getConfusableSources('') is the empty
\* list; a character with no entry yields null, respectively the empty list.
C21_AbsentYieldsNullOrEmpty ==
  LET absent(keys) ==
        \/ call.text = <<>>
        \/ /\ codePointLength(call.text) = 1
           /\ call.text \notin keys
  IN /\ (call.op = "getConfusables" /\ absent(DOMAIN confusables)) => call.ret = Null
     /\ (call.op = "getConfusableSources" /\ absent(DOMAIN reverseLookup)) => call.ret = <<>>

C21_Witness ==
  /\ call.op = "getConfusables"
  /\ codePointLength(call.text) = 1
  /\ call.text \notin DOMAIN confusables
  /\ confusables # << >>
  /\ call.ret = Null

\* normalization over every classification as the specification states it,
\* character by character
SpecNormalizeAll(text) ==
  LET cps == codePoints(text)
  IN join([i \in 1..Len(cps) |->
             IF cps[i] \in DOMAIN confusables THEN confusables[cps[i]].target[1] ELSE cps[i]])

\* C22: normalizeStringAll(text) replaces every character that has a record,
\* of any classification, by the record's first target and copies the others;
\* it equals normalizeString(text, c) when every mapped character of text has
\* classification c; the empty string maps to the empty string.
C22_NormalizeAllReplacesEveryCharacter ==
  call.op = "normalizeStringAll" =>
    LET cps == codePoints(call.text)
    IN /\ call.ret = SpecNormalizeAll(call.text)
       /\ \A c \in ConfusableType :
            (\A i \in 1..Len(cps) :
               cps[i] \in DOMAIN confusables => confusables[cps[i]].type = c)
              => call.ret = normalizeString(call.text, c)
       /\ call.text = <<>> => call.ret = <<>>

\* C23: getMetadata() reports the number of records, the number of keys of
\* reverseLookup, per classification the number of records of it, summing to
\* the number of records, and the version and date of the dataset.
C23_MetadataCountsTheDataset ==
  call.op = "getMetadata" =>
    /\ call.ret.totalMappings = Cardinality(DOMAIN confusables)
    /\ call.ret.reverseLookupEntries = Cardinality(DOMAIN reverseLookup)
    /\ DOMAIN call.ret.typeDistribution = {"MA", "MI", "X"}
    /\ \A c \in {"MA", "MI", "X"} :
         call.ret.typeDistribution[c] =
           Cardinality({k \in DOMAIN confusables : confusables[k].type = c})
    /\ call.ret.typeDistribution["MA"] + call.ret.typeDistribution["MI"]
         + call.ret.typeDistribution["X"] = call.ret.totalMappings
    /\ call.ret.version = version
    /\ call.ret.date = date

C23_Witness ==
  /\ call.op = "getMetadata"
  /\ call.ret.totalMappings = 2
  /\ call.ret.typeDistribution["MA"] = 1
  /\ call.ret.typeDistribution["X"] = 1
  /\ call.ret.reverseLookupEntries = 2

\* C24: no public operation mutates the dataset: once it is loaded, every
\* step of every sequence of calls leaves confusables, reverseLookup, version
\* and date as they were at load.
C24_OperationsKeepTheDataset ==
  [][pc = "loaded" => UNCHANGED <<confusables, reverseLookup, version, date>>]_vars

C24_Witness ==
  /\ call.op = "getRandomConfusable"
  /\ call.options.exclude.given
  /\ call.text \in DOMAIN confusables
  /\ call.ret # call.text
  /\ \E target \in Range(confusables[call.text].target) :
       target \in call.options.exclude.has

\* C25: with the documented mapping '0' -> ['O'] (MA), detectPhishingUrl
\* flags 'g00gle.com' as looking like 'google.com'.
C25_ReadmeFlagsLookalike ==
  ( /\ call.op = "detectPhishingUrl"
    /\ call.text = <<103, 48, 48, 103, 108, 101, 46, 99, 111, 109>>
    /\ <<48>> \in DOMAIN confusables
    /\ confusables[<<48>>].target = << <<79>> >>
    /\ confusables[<<48>>].type = "MA" )
  => call.ret = [suspicious |-> TRUE, looksLike |-> <<103, 111, 111, 103, 108, 101, 46, 99, 111, 109>>]

\* C27: what a lookup hands out is isolated from the dataset: across every
\* step after load, a caller's modification of a returned array or record
\* included, every lookup, normalization and variation call returns what it
\* returned before (a variation call: the same eligible positions, whose
\* records the lookups return).
C27_ReturnedValuesAreIsolated ==
  [][pc = "loaded" =>
       \A text \in Texts :
         /\ getConfusables(text)' = getConfusables(text)
         /\ getConfusableSources(text)' = getConfusableSources(text)
         /\ normalizeString(text, Undefined)' = normalizeString(text, Undefined)
         /\ eligiblePositions(split(text), defaultType(Undefined), 1)'
              = eligiblePositions(split(text), defaultType(Undefined), 1)]_vars

\* C28: with probability 0 randomizeConfusables returns the text; with
\* probability 1 every character that has a record of the requested
\* classification with a non-excluded target is replaced by such a target;
\* an omitted probability is 0.5.
C28_ProbabilityBoundsRandomize ==
  call.op = "randomizeConfusables" =>
    LET from == codePoints(call.text)
        to == codePoints(call.ret)
        probability == call.options.probability
        half == [given |-> TRUE, num |-> 1, den |-> 2]
    IN /\ (probability.given /\ probability.num = 0) => call.ret = call.text
       /\ (probability.given /\ probability.num = probability.den) =>
            \A i \in 1..Len(from) :
              (TypeAllows(from[i], call.options) /\ NonExcluded(from[i], call.options) # {})
                => to[i] \in NonExcluded(from[i], call.options)
       /\ ~probability.given =>
            \A coins \in [1..Len(call.text) -> RandomDraws],
               picks \in [1..Len(call.text) -> RandomDraws] :
              randomizeConfusables(call.text, call.options, coins, picks) =
                randomizeConfusables(call.text, [call.options EXCEPT !.probability = half],
                                     coins, picks)

\* C26: once every recognize() call has returned and the dispose() that
\* follows them has completed, every worker the driver created has been
\* terminated.
C26_EveryWorkerIsTerminated ==
  ( /\ AllRecognizeReturned
    /\ \E t \in DOMAIN tasks : tasks[t].op = "dispose" /\ tasks[t].pc = "fulfilled" )
  => \A w \in DOMAIN created : created[w] = "terminated"

\* C29: recognizes resolves to one result per input, in input order: the
\* input's own result, or an empty result at its position when its conversion
\* or its recognition failed (an empty hast root for 'hast', an empty string
\* otherwise).
C29_OneResultPerInputInOrder ==
  batch.state = "returned" =>
    /\ Len(batch.ret) = Len(batch.inputs)
    /\ \A i \in 1..Len(batch.inputs) :
         batch.ret[i] =
           IF batch.inputs[i] \in {"unreadable", "garbled"}
           THEN (IF batch.outputType = "hast" THEN EmptyRoot ELSE <<>>)
           ELSE (IF batch.outputType = "hast"
                 THEN fromHtml(hocr(batch.inputs, i))
                 ELSE hocr(batch.inputs, i))

C29_Witness ==
  /\ batch.state = "returned"
  /\ batch.outputType = "hast"
  /\ batch.parallel.value = 2
  /\ batch.inputs = <<"garbled", "page">>
  /\ batch.ret = <<EmptyRoot, fromHtml(<<"hocr", 2>>)>>

\* C30: during recognizes(inputs, { parallel: p }) of the AI driver, at no
\* time are more than p recognize calls of the batch in flight.
C30_AtMostParallelInFlight ==
  (batch.state = "aiAllSettled" /\ batch.parallel.given) =>
    Cardinality(InFlight) <= batch.parallel.value

====
